---------------------------- MODULE Spec2Model ----------------------------
(***************************************************************************)
(* cargo-verus (source/cargo-verus/src/main.rs): the front end that parses *)
(* its arguments, gates on the verus-driver version, resolves the package  *)
(* graph, indexes it, derives the per-package driver instructions, encodes *)
(* them into the environment of the cargo child and spawns it.             *)
(*                                                                         *)
(* A Rust String is a sequence of one-character strings, so that packing,  *)
(* splitting, prefixes and the byte order of BTreeMap keys are computed as *)
(* the code computes them.  A Result/Option is a record with an ok/some    *)
(* field.                                                                  *)
(***************************************************************************)
EXTENDS Naturals, Sequences, FiniteSets

-----------------------------------------------------------------------------
(* String literals of main.rs *)

SEP ==  \* "__VERUS_DRIVER_ARGS_SEP__"
    <<"_", "_", "V", "E", "R", "U", "S", "_", "D", "R", "I", "V", "E", "R", "_",
      "A", "R", "G", "S", "_", "S", "E", "P", "_", "_">>

ArgCheck ==  \* "--check"
    <<"-", "-", "c", "h", "e", "c", "k">>

ArgJustVerify ==  \* "--just-verify"
    <<"-", "-", "j", "u", "s", "t", "-", "v", "e", "r", "i", "f", "y">>

ArgDashDash ==  \* "--"
    <<"-", "-">>

ArgFrozen ==  \* "--frozen"
    <<"-", "-", "f", "r", "o", "z", "e", "n">>

ArgLocked ==  \* "--locked"
    <<"-", "-", "l", "o", "c", "k", "e", "d">>

ArgOffline ==  \* "--offline"
    <<"-", "-", "o", "f", "f", "l", "i", "n", "e">>

ArgConfig ==  \* "--config"
    <<"-", "-", "c", "o", "n", "f", "i", "g">>

ArgManifestPath ==  \* "--manifest-path"
    <<"-", "-", "m", "a", "n", "i", "f", "e", "s", "t", "-", "p", "a", "t", "h">>

ArgZ ==  \* "-Z"
    <<"-", "Z">>

CompileWhenNotPrimary ==  \* "--verus-driver-arg=--compile-when-not-primary-package"
    <<"-", "-", "v", "e", "r", "u", "s", "-", "d", "r", "i", "v", "e", "r", "-",
      "a", "r", "g", "=", "-", "-", "c", "o", "m", "p", "i", "l", "e", "-", "w",
      "h", "e", "n", "-", "n", "o", "t", "-", "p", "r", "i", "m", "a", "r", "y",
      "-", "p", "a", "c", "k", "a", "g", "e">>

CompileWhenPrimary ==  \* "--verus-driver-arg=--compile-when-primary-package"
    <<"-", "-", "v", "e", "r", "u", "s", "-", "d", "r", "i", "v", "e", "r", "-",
      "a", "r", "g", "=", "-", "-", "c", "o", "m", "p", "i", "l", "e", "-", "w",
      "h", "e", "n", "-", "p", "r", "i", "m", "a", "r", "y", "-", "p", "a", "c",
      "k", "a", "g", "e">>

IsCoreArg ==  \* "--verus-arg=--is-core"
    <<"-", "-", "v", "e", "r", "u", "s", "-", "a", "r", "g", "=", "-", "-", "i",
      "s", "-", "c", "o", "r", "e">>

IsVstdArg ==  \* "--verus-arg=--is-vstd"
    <<"-", "-", "v", "e", "r", "u", "s", "-", "a", "r", "g", "=", "-", "-", "i",
      "s", "-", "v", "s", "t", "d">>

NoVstdArg ==  \* "--verus-arg=--no-vstd"
    <<"-", "-", "v", "e", "r", "u", "s", "-", "a", "r", "g", "=", "-", "-", "n",
      "o", "-", "v", "s", "t", "d">>

ImportDepPrefix ==  \* "--verus-driver-arg=--import-dep-if-present="
    <<"-", "-", "v", "e", "r", "u", "s", "-", "d", "r", "i", "v", "e", "r", "-",
      "a", "r", "g", "=", "-", "-", "i", "m", "p", "o", "r", "t", "-", "d", "e",
      "p", "-", "i", "f", "-", "p", "r", "e", "s", "e", "n", "t", "=">>

EnvRustcWrapper ==  \* "RUSTC_WRAPPER"
    <<"R", "U", "S", "T", "C", "_", "W", "R", "A", "P", "P", "E", "R">>

EnvViaCargo ==  \* "__VERUS_DRIVER_VIA_CARGO__"
    <<"_", "_", "V", "E", "R", "U", "S", "_", "D", "R", "I", "V", "E", "R", "_",
      "V", "I", "A", "_", "C", "A", "R", "G", "O", "_", "_">>

EnvCargoLibMetadata ==  \* "__CARGO_DEFAULT_LIB_METADATA"
    <<"_", "_", "C", "A", "R", "G", "O", "_", "D", "E", "F", "A", "U", "L", "T",
      "_", "L", "I", "B", "_", "M", "E", "T", "A", "D", "A", "T", "A">>

EnvDriverArgs ==  \* "__VERUS_DRIVER_ARGS__"
    <<"_", "_", "V", "E", "R", "U", "S", "_", "D", "R", "I", "V", "E", "R", "_",
      "A", "R", "G", "S", "_", "_">>

EnvIsBuiltinPrefix ==  \* "__VERUS_DRIVER_IS_BUILTIN_"
    <<"_", "_", "V", "E", "R", "U", "S", "_", "D", "R", "I", "V", "E", "R", "_",
      "I", "S", "_", "B", "U", "I", "L", "T", "I", "N", "_">>

EnvIsBuiltinMacrosPrefix ==  \* "__VERUS_DRIVER_IS_BUILTIN_MACROS_"
    <<"_", "_", "V", "E", "R", "U", "S", "_", "D", "R", "I", "V", "E", "R", "_",
      "I", "S", "_", "B", "U", "I", "L", "T", "I", "N", "_", "M", "A", "C", "R",
      "O", "S", "_">>

EnvVerifyPrefix ==  \* "__VERUS_DRIVER_VERIFY_"
    <<"_", "_", "V", "E", "R", "U", "S", "_", "D", "R", "I", "V", "E", "R", "_",
      "V", "E", "R", "I", "F", "Y", "_">>

EnvArgsForPrefix ==  \* "__VERUS_DRIVER_ARGS_FOR_"
    <<"_", "_", "V", "E", "R", "U", "S", "_", "D", "R", "I", "V", "E", "R", "_",
      "A", "R", "G", "S", "_", "F", "O", "R", "_">>

EnvOne ==  \* "1"
    <<"1">>

VerusDriverName ==  \* "verus-driver"
    <<"v", "e", "r", "u", "s", "-", "d", "r", "i", "v", "e", "r">>

VerusCargoVal ==  \* "verus"
    <<"v", "e", "r", "u", "s">>

-----------------------------------------------------------------------------
(* str and String operations of the Rust standard library, as main.rs uses them *)

\* The characters of the model's map keys in increasing byte (ASCII) order:
\* str's Ord is the lexicographic order of the bytes.
AsciiOrder ==
    <<"-", ".", "/", "0", "1", "2", "3", "4", "5", "6", "7", "8", "9",
      "A", "B", "C", "D", "E", "F", "G", "H", "I", "J", "K", "L", "M",
      "N", "O", "P", "Q", "R", "S", "T", "U", "V", "W", "X", "Y", "Z", "_",
      "a", "b", "c", "d", "e", "f", "g", "h", "i", "j", "k", "l", "m",
      "n", "o", "p", "q", "r", "s", "t", "u", "v", "w", "x", "y", "z">>

Digits == {"0", "1", "2", "3", "4", "5", "6", "7", "8", "9"}

Letters ==
    {"A", "B", "C", "D", "E", "F", "G", "H", "I", "J", "K", "L", "M",
     "N", "O", "P", "Q", "R", "S", "T", "U", "V", "W", "X", "Y", "Z",
     "a", "b", "c", "d", "e", "f", "g", "h", "i", "j", "k", "l", "m",
     "n", "o", "p", "q", "r", "s", "t", "u", "v", "w", "x", "y", "z"}

ByteOf(c) == CHOOSE i \in 1..Len(AsciiOrder) : AsciiOrder[i] = c

\* a < b for str (impl Ord for str)
StrLess(a, b) ==
    \E i \in 1..(Len(a) + 1) :
        /\ i <= Len(b)
        /\ \A j \in 1..(i - 1) : a[j] = b[j]
        /\ \/ i = Len(a) + 1
           \/ ByteOf(a[i]) < ByteOf(b[i])

\* str::strip_prefix(..).is_some()
HasPrefix(s, p) == Len(p) <= Len(s) /\ SubSeq(s, 1, Len(p)) = p

\* str::find: the least index at which p occurs in s, 0 when it does not
Find(s, p) ==
    LET hits == {i \in 1..(Len(s) + 1 - Len(p)) : SubSeq(s, i, i + Len(p) - 1) = p}
    IN  IF Len(p) > Len(s) \/ hits = {} THEN 0
        ELSE CHOOSE i \in hits : \A j \in hits : i <= j

StrContains(s, p) == Find(s, p) # 0

\* str::split(pattern): the pieces between the leftmost non-overlapping matches
RECURSIVE StrSplit(_, _)
StrSplit(s, p) ==
    LET i == Find(s, p)
    IN  IF i = 0 THEN <<s>>
        ELSE <<SubSeq(s, 1, i - 1)>> \o StrSplit(SubSeq(s, i + Len(p), Len(s)), p)

\* Iterator<Item = String>::collect::<String>(): the concatenation
RECURSIVE Concat(_)
Concat(ss) == IF ss = <<>> THEN <<>> ELSE Head(ss) \o Concat(Tail(ss))

IsWhitespace(c) == c \in {" ", "\n", "\t"}

\* str::split_whitespace: the maximal runs of non-whitespace characters
RECURSIVE SplitWhitespaceFrom(_, _, _, _)
SplitWhitespaceFrom(s, i, cur, acc) ==
    IF i > Len(s) THEN (IF cur = <<>> THEN acc ELSE Append(acc, cur))
    ELSE IF IsWhitespace(s[i])
         THEN SplitWhitespaceFrom(s, i + 1, <<>>,
                                  IF cur = <<>> THEN acc ELSE Append(acc, cur))
         ELSE SplitWhitespaceFrom(s, i + 1, Append(cur, s[i]), acc)

split_whitespace(s) == SplitWhitespaceFrom(s, 1, <<>>, <<>>)

-----------------------------------------------------------------------------
(* VerusCmd::new *)

\* the while-let loop over args_iter: the state of the loop after the
\* iterator stopped, with the arguments the iterator has not yielded
RECURSIVE NewLoop(_, _, _, _, _)
NewLoop(args, i, sub, cargo_args, just_verify) ==
    IF i > Len(args)
    THEN [cargo_subcommand |-> sub, cargo_args |-> cargo_args,
          just_verify |-> just_verify, rest |-> <<>>]
    ELSE IF args[i] = ArgCheck
         THEN NewLoop(args, i + 1, "check", cargo_args, just_verify)
    ELSE IF args[i] = ArgJustVerify
         THEN NewLoop(args, i + 1, sub, cargo_args, TRUE)
    ELSE IF args[i] = ArgDashDash
         THEN [cargo_subcommand |-> sub, cargo_args |-> cargo_args,
               just_verify |-> just_verify,
               rest |-> SubSeq(args, i + 1, Len(args))]
    ELSE NewLoop(args, i + 1, sub, Append(cargo_args, args[i]), just_verify)

\* CommonPrefixArgs with the `if !just_verify` of line 122 left out
CommonPrefixArgs_AlwaysPrimary(just_verify) ==
    <<CompileWhenNotPrimary, CompileWhenPrimary>>

\* the two global instructions pushed after the loop
CommonPrefixArgs(just_verify) ==
    <<CompileWhenNotPrimary>>
        \o (IF ~just_verify THEN <<CompileWhenPrimary>> ELSE <<>>)

VerusCmd_new(args) ==
    LET l == NewLoop(args, 1, "build", <<>>, FALSE)
    IN  [cargo_subcommand |-> l.cargo_subcommand,
         cargo_args |-> l.cargo_args,
         common_verus_driver_args |-> CommonPrefixArgs(l.just_verify) \o l.rest]

-----------------------------------------------------------------------------
(* filter_args, as VerusCmd::metadata calls it *)

standalone_flags == {ArgFrozen, ArgLocked, ArgOffline}

flags_with_values == <<ArgConfig, ArgManifestPath, ArgZ>>

\* The for loop over flags_with_values ends in an unconditional break: only
\* the first flag is ever tried as a `flag=value` prefix.
RECURSIVE FilterLoop(_, _, _)
FilterLoop(orig, i, acc) ==
    IF i > Len(orig) THEN [ok |-> TRUE, args |-> acc]
    ELSE IF orig[i] \in standalone_flags
         THEN FilterLoop(orig, i + 1, Append(acc, orig[i]))
    ELSE IF \E k \in 1..Len(flags_with_values) : flags_with_values[k] = orig[i]
         THEN IF i + 1 > Len(orig)
              THEN [ok |-> FALSE, args |-> <<>>]
              ELSE FilterLoop(orig, i + 2, acc \o <<orig[i], orig[i + 1]>>)
    ELSE IF HasPrefix(orig[i], flags_with_values[1] \o <<"=">>)
         THEN FilterLoop(orig, i + 1, Append(acc, orig[i]))
    ELSE FilterLoop(orig, i + 1, acc)

filter_args(orig_args) == FilterLoop(orig_args, 1, <<>>)

-----------------------------------------------------------------------------
(* pack_verus_driver_args_for_env *)

pack_verus_driver_args_for_env(args) ==
    Concat([i \in 1..Len(args) |-> SEP \o args[i]])

-----------------------------------------------------------------------------
(* The version gate: parse_verus_driver_version_output,                    *)
(* get_verus_driver_version, checked_verus_driver_path                     *)

DigitOrder == <<"0", "1", "2", "3", "4", "5", "6", "7", "8", "9">>

DigitValue(c) == (CHOOSE i \in 1..Len(DigitOrder) : DigitOrder[i] = c) - 1

RECURSIVE ToNat(_)
ToNat(ds) ==
    IF ds = <<>> THEN 0
    ELSE 10 * ToNat(SubSeq(ds, 1, Len(ds) - 1)) + DigitValue(ds[Len(ds)])

AllDigits(p) == \A i \in 1..Len(p) : p[i] \in Digits

\* a numeric identifier of a semantic version: digits, no leading zero
NumericOk(p) == Len(p) > 0 /\ AllDigits(p) /\ (Len(p) > 1 => p[1] # "0")

IdentChars(p) == \A i \in 1..Len(p) : p[i] \in Digits \cup Letters \cup {"-"}

PrereleaseOk(pre) ==
    \A k \in 1..Len(StrSplit(pre, <<".">>)) :
        LET part == StrSplit(pre, <<".">>)[k]
        IN  Len(part) > 0 /\ IdentChars(part) /\ (AllDigits(part) => NumericOk(part))

BuildOk(build) ==
    \A k \in 1..Len(StrSplit(build, <<".">>)) :
        LET part == StrSplit(build, <<".">>)[k]
        IN  Len(part) > 0 /\ IdentChars(part)

NoVersion == [some |-> FALSE, major |-> 0, minor |-> 0, patch |-> 0, pre |-> <<>>]

\* semver::Version::parse: MAJOR.MINOR.PATCH, then an optional -PRERELEASE,
\* then an optional +BUILD
Version_parse(s) ==
    LET plus  == Find(s, <<"+">>)
        main  == IF plus = 0 THEN s ELSE SubSeq(s, 1, plus - 1)
        build == IF plus = 0 THEN <<>> ELSE SubSeq(s, plus + 1, Len(s))
        dash  == Find(main, <<"-">>)
        core  == IF dash = 0 THEN main ELSE SubSeq(main, 1, dash - 1)
        pre   == IF dash = 0 THEN <<>> ELSE SubSeq(main, dash + 1, Len(main))
        nums  == StrSplit(core, <<".">>)
    IN  IF /\ Len(nums) = 3
           /\ \A k \in 1..3 : NumericOk(nums[k])
           /\ (dash # 0 => PrereleaseOk(pre))
           /\ (plus # 0 => BuildOk(build))
        THEN [some |-> TRUE, major |-> ToNat(nums[1]), minor |-> ToNat(nums[2]),
              patch |-> ToNat(nums[3]), pre |-> pre]
        ELSE NoVersion

\* VersionReq::parse("=0.1.0")
verus_driver_version_req == [major |-> 0, minor |-> 1, patch |-> 0, pre |-> <<>>]

\* VersionReq::matches for an `=` comparator: the three numbers and the
\* pre-release are equal; build metadata takes no part
VersionReq_matches(req, v) ==
    /\ v.major = req.major
    /\ v.minor = req.minor
    /\ v.patch = req.patch
    /\ v.pre = req.pre

\* parse_verus_driver_version_output with the comparison of the first token
\* to "verus-driver" left out
parse_verus_driver_version_output_AnyName(stdout) ==
    LET parts == split_whitespace(stdout)
    IN  IF Len(parts) < 2 THEN NoVersion ELSE Version_parse(parts[2])

parse_verus_driver_version_output(stdout) ==
    LET parts == split_whitespace(stdout)
    IN  IF Len(parts) < 1 THEN NoVersion
        ELSE IF parts[1] # VerusDriverName THEN NoVersion
        ELSE IF Len(parts) < 2 THEN NoVersion
        ELSE Version_parse(parts[2])

\* The outcome of running `verus-driver --verus-driver-arg=--version`
\* (Command::output): whether the process ran, whether its exit status was
\* success, whether its stdout is valid UTF-8, and its stdout.
get_verus_driver_version(p) ==
    IF ~p.ran THEN [ok |-> FALSE, err |-> "output_failed", version |-> NoVersion]
    ELSE IF ~p.success THEN [ok |-> FALSE, err |-> "exit_failure", version |-> NoVersion]
    ELSE IF ~p.utf8 THEN [ok |-> FALSE, err |-> "invalid_utf8", version |-> NoVersion]
    ELSE IF ~parse_verus_driver_version_output(p.stdout).some
         THEN [ok |-> FALSE, err |-> "invalid_output", version |-> NoVersion]
    ELSE [ok |-> TRUE, err |-> "none",
          version |-> parse_verus_driver_version_output(p.stdout)]

\* current_exe().with_file_name("verus-driver")
unchecked_verus_driver_path ==
    <<"/", "b", "i", "n", "/">> \o VerusDriverName

NoPath == <<>>

checked_verus_driver_path(p) ==
    LET version == get_verus_driver_version(p)
    IN  IF ~version.ok THEN [ok |-> FALSE, err |-> version.err, path |-> NoPath]
        ELSE IF ~VersionReq_matches(verus_driver_version_req, version.version)
             THEN [ok |-> FALSE, err |-> "version_mismatch", path |-> NoPath]
        ELSE [ok |-> TRUE, err |-> "none", path |-> unchecked_verus_driver_path]

-----------------------------------------------------------------------------
(* VerusMetadata and mk_package_id *)

Fields == {"verify", "no-vstd", "is-vstd", "is-core", "is-builtin", "is-builtin-macros"}

DefaultVerusMetadata ==
    [verify |-> FALSE, no_vstd |-> FALSE, is_vstd |-> FALSE, is_core |-> FALSE,
     is_builtin |-> FALSE, is_builtin_macros |-> FALSE]

\* package.metadata is [kind, on]: kind "absent" when the block is no object
\* or has no "verus" key, "malformed" when metadata.verus does not
\* deserialize, "object" when it does, with `on` the fields it sets to true
\* (the others are false or left out, which #[serde(default)] makes false).
VerusMetadata_parse_from_package(package) ==
    IF package.metadata.kind = "absent"
    THEN [ok |-> TRUE, value |-> DefaultVerusMetadata]
    ELSE IF package.metadata.kind = "malformed"
    THEN [ok |-> FALSE, value |-> DefaultVerusMetadata]
    ELSE [ok |-> TRUE,
          value |-> [verify |-> "verify" \in package.metadata.on,
                     no_vstd |-> "no-vstd" \in package.metadata.on,
                     is_vstd |-> "is-vstd" \in package.metadata.on,
                     is_core |-> "is-core" \in package.metadata.on,
                     is_builtin |-> "is-builtin" \in package.metadata.on,
                     is_builtin_macros |-> "is-builtin-macros" \in package.metadata.on]]

\* hex::encode(Sha256(manifest_path))[..12] of the manifest paths of the
\* workspace below (the digests are those SHA-256 gives)
ManifestPathHash12(manifest_path) ==
    IF manifest_path = <<"/", "w", "/", "r", "/", "C", "a", "r", "g", "o", ".", "t", "o", "m", "l">>
    THEN <<"c", "a", "5", "8", "f", "9", "0", "6", "f", "8", "4", "a">>
    ELSE IF manifest_path = <<"/", "w", "/", "m", "/", "C", "a", "r", "g", "o", ".", "t", "o", "m", "l">>
    THEN <<"2", "9", "b", "1", "4", "1", "4", "6", "d", "3", "1", "8">>
    ELSE <<"3", "f", "1", "a", "8", "2", "b", "6", "2", "4", "c", "d">>

mk_package_id(name, version, manifest_path) ==
    name \o <<"-">> \o version \o <<"-">> \o ManifestPathHash12(manifest_path)

-----------------------------------------------------------------------------
(* std::collections::BTreeMap with str / PackageId keys: the entries in    *)
(* ascending key order, each [key, value]                                  *)

\* the number of entries whose key is less than k: where k belongs
BTreeMap_rank(m, k) == Cardinality({i \in 1..Len(m) : StrLess(m[i].key, k)})

BTreeMap_contains(m, k) == \E i \in 1..Len(m) : m[i].key = k

\* an insert that keeps the entries in insertion order, as a Vec of pairs or
\* an IndexMap would
BTreeMap_insert_Unordered(m, k, v) ==
    IF BTreeMap_contains(m, k)
    THEN [map |-> [i \in 1..Len(m) |->
                      IF m[i].key = k THEN [key |-> k, value |-> v] ELSE m[i]],
          had |-> TRUE]
    ELSE [map |-> Append(m, [key |-> k, value |-> v]), had |-> FALSE]

\* BTreeMap::insert: [map, had], had being `!insert(..).is_none()`
BTreeMap_insert(m, k, v) ==
    IF BTreeMap_contains(m, k)
    THEN [map |-> [i \in 1..Len(m) |->
                      IF m[i].key = k THEN [key |-> k, value |-> v] ELSE m[i]],
          had |-> TRUE]
    ELSE [map |-> SubSeq(m, 1, BTreeMap_rank(m, k))
                      \o <<[key |-> k, value |-> v]>>
                      \o SubSeq(m, BTreeMap_rank(m, k) + 1, Len(m)),
          had |-> FALSE]

\* BTreeMap::remove: the map without k (the caller has checked that k is in it)
BTreeMap_remove(m, k) ==
    LET i == CHOOSE j \in 1..Len(m) : m[j].key = k
    IN  SubSeq(m, 1, i - 1) \o SubSeq(m, i + 1, Len(m))

\* BTreeMap::get(..).unwrap() (the caller has checked that k is in it)
BTreeMap_get(m, k) == m[CHOOSE j \in 1..Len(m) : m[j].key = k].value

\* BTreeMap::values: in ascending key order
BTreeMap_values(m) == [i \in 1..Len(m) |-> m[i].value]

-----------------------------------------------------------------------------
(* MetadataIndex::new, MetadataIndex::get, the entry accessors *)

\* for dep in &node.deps { assert!(deps.insert(dep.name.as_str(), dep).is_none()) }
RECURSIVE DepsLoop(_, _, _)
DepsLoop(node_deps, i, deps) ==
    IF i > Len(node_deps) THEN [panic |-> FALSE, map |-> deps]
    ELSE LET ins == BTreeMap_insert(deps, node_deps[i].name, node_deps[i])
         IN  IF ins.had THEN [panic |-> TRUE, map |-> <<>>]
             ELSE DepsLoop(node_deps, i + 1, ins.map)

\* for node in &resolve.nodes { ...; assert!(deps_by_package.insert(&node.id, deps).is_none()) }
RECURSIVE NodesLoop(_, _, _)
NodesLoop(nodes, i, deps_by_package) ==
    IF i > Len(nodes) THEN [panic |-> FALSE, map |-> deps_by_package]
    ELSE LET deps == DepsLoop(nodes[i].deps, 1, <<>>)
             ins  == BTreeMap_insert(deps_by_package, nodes[i].id, deps.map)
         IN  IF deps.panic \/ ins.had THEN [panic |-> TRUE, map |-> <<>>]
             ELSE NodesLoop(nodes, i + 1, ins.map)

\* for package in &metadata.packages { assert!(entries.insert(..).is_none()) }:
\* the fields of the entry are evaluated first, in order (parse_from_package
\* with `?`, then remove(..).unwrap()), then the insert and its assert
RECURSIVE PackagesLoop(_, _, _, _)
PackagesLoop(packages, i, entries, deps_by_package) ==
    IF i > Len(packages)
    THEN [status |-> "ok", entries |-> entries, deps_by_package |-> deps_by_package]
    ELSE LET package == packages[i]
             verus_metadata == VerusMetadata_parse_from_package(package)
         IN  IF ~verus_metadata.ok
             THEN [status |-> "err", entries |-> <<>>, deps_by_package |-> <<>>]
             ELSE IF ~BTreeMap_contains(deps_by_package, package.id)
             THEN [status |-> "panic", entries |-> <<>>, deps_by_package |-> <<>>]
             ELSE LET ins == BTreeMap_insert(entries, package.id,
                                 [package |-> package,
                                  verus_metadata |-> verus_metadata.value,
                                  deps |-> BTreeMap_get(deps_by_package, package.id)])
                  IN  IF ins.had
                      THEN [status |-> "panic", entries |-> <<>>, deps_by_package |-> <<>>]
                      ELSE PackagesLoop(packages, i + 1, ins.map,
                                        BTreeMap_remove(deps_by_package, package.id))

\* MetadataIndex::new with the assert!(deps_by_package.is_empty()) of line
\* 327 left out
MetadataIndex_new_NoFinalAssert(metadata) ==
    IF ~metadata.resolve.some THEN [status |-> "panic", entries |-> <<>>]
    ELSE LET deps_by_package == NodesLoop(metadata.resolve.nodes, 1, <<>>)
         IN  IF deps_by_package.panic THEN [status |-> "panic", entries |-> <<>>]
             ELSE LET loop == PackagesLoop(metadata.packages, 1, <<>>, deps_by_package.map)
                  IN  IF loop.status # "ok" THEN [status |-> loop.status, entries |-> <<>>]
                      ELSE [status |-> "ok", entries |-> loop.entries]

\* status "ok": Ok(Self { entries }); "err": the `?` on parse_from_package;
\* "panic": a failed assert! or unwrap
MetadataIndex_new(metadata) ==
    IF ~metadata.resolve.some THEN [status |-> "panic", entries |-> <<>>]
    ELSE LET deps_by_package == NodesLoop(metadata.resolve.nodes, 1, <<>>)
         IN  IF deps_by_package.panic THEN [status |-> "panic", entries |-> <<>>]
             ELSE LET loop == PackagesLoop(metadata.packages, 1, <<>>, deps_by_package.map)
                  IN  IF loop.status # "ok" THEN [status |-> loop.status, entries |-> <<>>]
                      ELSE IF loop.deps_by_package # <<>>
                           THEN [status |-> "panic", entries |-> <<>>]
                           ELSE [status |-> "ok", entries |-> loop.entries]

\* whether self.entries.get(id) is Some: MetadataIndex::get unwraps it
MetadataIndex_has(entries, id) == BTreeMap_contains(entries, id)

MetadataIndex_get(entries, id) == BTreeMap_get(entries, id)

MetadataIndex_entries(entries) == BTreeMap_values(entries)

MetadataIndexEntry_deps(entry) == BTreeMap_values(entry.deps)

-----------------------------------------------------------------------------
(* VerusCmd::into_std_cmd: the environment of the cargo child *)

\* Command::env: sets the variable, replacing an earlier value
EnvSet(env, key, val) ==
    [k \in (DOMAIN env) \cup {key} |-> IF k = key THEN val ELSE env[k]]

EmptyEnv == [k \in {} |-> <<>>]

\* the role instructions with the is_vstd block before the is_core block
RoleArgs_VstdFirst(verus_metadata) ==
    (IF verus_metadata.is_vstd THEN <<IsVstdArg>> ELSE <<>>)
        \o (IF verus_metadata.is_core THEN <<IsCoreArg>> ELSE <<>>)
        \o (IF verus_metadata.no_vstd THEN <<NoVstdArg>> ELSE <<>>)

\* the three role instructions, lines 194-204
RoleArgs(verus_metadata) ==
    (IF verus_metadata.is_core THEN <<IsCoreArg>> ELSE <<>>)
        \o (IF verus_metadata.is_vstd THEN <<IsVstdArg>> ELSE <<>>)
        \o (IF verus_metadata.no_vstd THEN <<NoVstdArg>> ELSE <<>>)

\* the loop over entry.deps() with the test of the target's verify flag
\* (line 207) left out
RECURSIVE ImportLoop_AnyTarget(_, _, _, _)
ImportLoop_AnyTarget(entries, deps, i, acc) ==
    IF i > Len(deps) THEN [panic |-> FALSE, args |-> acc]
    ELSE IF ~MetadataIndex_has(entries, deps[i].pkg)
         THEN [panic |-> TRUE, args |-> <<>>]
    ELSE ImportLoop_AnyTarget(entries, deps, i + 1,
                              Append(acc, ImportDepPrefix \o deps[i].name))

\* for dep in entry.deps() { if metadata_index.get(&dep.pkg).verus_metadata().verify { push } }
RECURSIVE ImportLoop(_, _, _, _)
ImportLoop(entries, deps, i, acc) ==
    IF i > Len(deps) THEN [panic |-> FALSE, args |-> acc]
    ELSE IF ~MetadataIndex_has(entries, deps[i].pkg)
         THEN [panic |-> TRUE, args |-> <<>>]
    ELSE IF MetadataIndex_get(entries, deps[i].pkg).verus_metadata.verify
         THEN ImportLoop(entries, deps, i + 1,
                         Append(acc, ImportDepPrefix \o deps[i].name))
    ELSE ImportLoop(entries, deps, i + 1, acc)

\* the cmd.env of lines 216-219 without the is_empty test of line 215
SetArgsFor_Always(env, package_id, verus_driver_args_for_package) ==
    EnvSet(env, EnvArgsForPrefix \o package_id,
           pack_verus_driver_args_for_env(verus_driver_args_for_package))

\* if !verus_driver_args_for_package.is_empty() { cmd.env(ARGS_FOR_<id>, pack(..)) }
SetArgsFor(env, package_id, verus_driver_args_for_package) ==
    IF verus_driver_args_for_package # <<>>
    THEN EnvSet(env, EnvArgsForPrefix \o package_id,
                pack_verus_driver_args_for_env(verus_driver_args_for_package))
    ELSE env

\* the is_builtin and is_builtin_macros variables, lines 181-187
SetBuiltinFlags(env, package_id, verus_metadata) ==
    LET e1 == IF verus_metadata.is_builtin
              THEN EnvSet(env, EnvIsBuiltinPrefix \o package_id, EnvOne)
              ELSE env
    IN  IF verus_metadata.is_builtin_macros
        THEN EnvSet(e1, EnvIsBuiltinMacrosPrefix \o package_id, EnvOne)
        ELSE e1

\* for entry in metadata_index.entries() { ... }: args_for records, for
\* each verified package, the verus_driver_args_for_package of its iteration
RECURSIVE EntriesLoop(_, _, _, _, _)
EntriesLoop(entries, vals, i, env, args_for) ==
    IF i > Len(vals) THEN [panic |-> FALSE, env |-> env, args_for |-> args_for]
    ELSE LET entry == vals[i]
             package == entry.package
             package_id == mk_package_id(package.name, package.version,
                                         package.manifest_path)
             verus_metadata == entry.verus_metadata
             e2 == SetBuiltinFlags(env, package_id, verus_metadata)
         IN  IF ~verus_metadata.verify
             THEN EntriesLoop(entries, vals, i + 1, e2, args_for)
             ELSE LET e3 == EnvSet(e2, EnvVerifyPrefix \o package_id, EnvOne)
                      imports == ImportLoop(entries, MetadataIndexEntry_deps(entry), 1,
                                            RoleArgs(verus_metadata))
                  IN  IF imports.panic
                      THEN [panic |-> TRUE, env |-> env, args_for |-> args_for]
                      ELSE EntriesLoop(entries, vals, i + 1,
                                       SetArgsFor(e3, package_id, imports.args),
                                       EnvSet(args_for, package.id, imports.args))

PackageEnvOf(entries, env) ==
    EntriesLoop(entries, MetadataIndex_entries(entries), 1, env, EmptyEnv)

-----------------------------------------------------------------------------
(* The run of process(args) as a state machine.  What the outside answers  *)
(* (the version probe, the graph query, the cargo child) is fixed when the *)
(* run starts and read by the step that asks for it.                       *)

VARIABLES
    pc,         \* the next step of process / into_std_cmd, "done" once it returned
    args,       \* the arguments given to process
    probe,      \* what `verus-driver --verus-driver-arg=--version` answers
    metadata,   \* what the graph query (MetadataCommand::exec) answers
    child,      \* how the cargo child behaves once spawned
    cmd,        \* the VerusCmd
    argv,       \* the arguments of the cargo std::process::Command
    env,        \* the environment of the cargo std::process::Command
    index,      \* the MetadataIndex
    args_for,   \* PackageId -> verus_driver_args_for_package of a verified package
    log,        \* the external operations performed so far, in order
    outcome     \* how process ended

vars == <<pc, args, probe, metadata, child, cmd, argv, env, index, args_for, log, outcome>>

NoCmd == [cargo_subcommand |-> "none", cargo_args |-> <<>>, common_verus_driver_args |-> <<>>]

NoIndex == [status |-> "none", entries |-> <<>>]

Running == [kind |-> "running", err |-> "none", code |-> 0]

Failed(err) == [kind |-> "error", err |-> err, code |-> 0]

Panicked == [kind |-> "panic", err |-> "panic", code |-> 0]

\* CargoSubcommand::to_arg
CargoSubcommand_to_arg(sub) ==
    IF sub = "check" THEN <<"c", "h", "e", "c", "k">> ELSE <<"b", "u", "i", "l", "d">>

\* process, line 57: VerusCmd::new(args)
New ==
    /\ pc = "new"
    /\ cmd' = VerusCmd_new(args)
    /\ pc' = "gate"
    /\ UNCHANGED <<args, probe, metadata, child, argv, env, index, args_for, log, outcome>>

\* into_std_cmd, lines 147-151: the Command with the subcommand and the cargo
\* arguments, then RUSTC_WRAPPER from checked_verus_driver_path()?
Gate ==
    /\ pc = "gate"
    /\ log' = Append(log, "probe")
    /\ argv' = <<CargoSubcommand_to_arg(cmd.cargo_subcommand)>> \o cmd.cargo_args
    /\ IF checked_verus_driver_path(probe).ok
       THEN /\ env' = EnvSet(env, EnvRustcWrapper, checked_verus_driver_path(probe).path)
            /\ pc' = "common_env"
            /\ outcome' = outcome
       ELSE /\ env' = env
            /\ pc' = "done"
            /\ outcome' = Failed(checked_verus_driver_path(probe).err)
    /\ UNCHANGED <<args, probe, metadata, child, cmd, index, args_for>>

\* into_std_cmd, lines 153-163: the fixed variables and the packed global
\* instruction list
CommonEnvOf(e, common_verus_driver_args) ==
    LET e1 == EnvSet(EnvSet(e, EnvViaCargo, EnvOne), EnvCargoLibMetadata, VerusCargoVal)
        common == pack_verus_driver_args_for_env(common_verus_driver_args)
    IN  IF common # <<>> THEN EnvSet(e1, EnvDriverArgs, common) ELSE e1

CommonEnv ==
    /\ pc = "common_env"
    /\ env' = CommonEnvOf(env, cmd.common_verus_driver_args)
    /\ pc' = "metadata"
    /\ UNCHANGED <<args, probe, metadata, child, cmd, argv, index, args_for, log, outcome>>

\* into_std_cmd, line 165: self.metadata()?, that is filter_args(..)? and
\* then MetadataCommand::exec()?
ResolveMetadata ==
    /\ pc = "metadata"
    /\ IF ~filter_args(cmd.cargo_args).ok
       THEN pc' = "done" /\ outcome' = Failed("filter_args") /\ log' = log
       ELSE /\ log' = Append(log, "metadata")
            /\ IF metadata.query_ok
               THEN pc' = "index" /\ outcome' = outcome
               ELSE pc' = "done" /\ outcome' = Failed("metadata")
    /\ UNCHANGED <<args, probe, metadata, child, cmd, argv, env, index, args_for>>

\* into_std_cmd, line 166: MetadataIndex::new(&metadata)?
IndexNew ==
    /\ pc = "index"
    /\ index' = MetadataIndex_new(metadata)
    /\ log' = Append(log, "index")
    /\ IF index'.status = "ok" THEN pc' = "package_env" /\ outcome' = outcome
       ELSE IF index'.status = "err" THEN pc' = "done" /\ outcome' = Failed("verus_metadata")
       ELSE pc' = "done" /\ outcome' = Panicked
    /\ UNCHANGED <<args, probe, metadata, child, cmd, argv, env, args_for>>

\* into_std_cmd, lines 168-224: the loop over the entries, then Ok(cmd)
PackageEnv ==
    /\ pc = "package_env"
    /\ IF PackageEnvOf(index.entries, env).panic
       THEN /\ pc' = "done"
            /\ outcome' = Panicked
            /\ UNCHANGED <<env, args_for>>
       ELSE /\ pc' = "spawn"
            /\ env' = PackageEnvOf(index.entries, env).env
            /\ args_for' = PackageEnvOf(index.entries, env).args_for
            /\ outcome' = outcome
    /\ UNCHANGED <<args, probe, metadata, child, cmd, argv, index, log>>

\* process, lines 61-69: spawn, wait, and the exit status as an ExitCode;
\* a child is [spawned, waited, has_code, code]
ExitOf(c) ==
    IF ~c.spawned THEN Failed("spawn")
    ELSE IF ~c.waited THEN Failed("wait")
    ELSE IF ~c.has_code THEN Failed("signal")
    ELSE IF c.code > 255 THEN Failed("odd_exit_code")
    ELSE [kind |-> "exit", err |-> "none", code |-> c.code]

Spawn ==
    /\ pc = "spawn"
    /\ log' = Append(log, "spawn")
    /\ outcome' = ExitOf(child)
    /\ pc' = "done"
    /\ UNCHANGED <<args, probe, metadata, child, cmd, argv, env, index, args_for>>

Next ==
    \/ New
    \/ Gate
    \/ CommonEnv
    \/ ResolveMetadata
    \/ IndexNew
    \/ PackageEnv
    \/ Spawn

\* the steps of into_std_cmd from MetadataIndex::new on
NextIndexed ==
    \/ IndexNew
    \/ PackageEnv
    \/ Spawn

-----------------------------------------------------------------------------
(* The inputs: argument lists, probe answers, resolved graphs, children *)

MaxArgs == 4

MaxLexemes == 4

MaxInstr == 2

MaxGraphSize == 4

ProcGraphSize == 3

MaxDeps == 2

SeqsUpTo(S, n) == UNION {[1..k -> S] : k \in 0..n}

ArgRelease ==  \* "--release"
    <<"-", "-", "r", "e", "l", "e", "a", "s", "e">>

ArgTokens == {ArgCheck, ArgJustVerify, ArgDashDash, ArgRelease, ArgZ}

NoArgs == {<<>>}

\* a verus-driver that answers "verus-driver 0.1.0\n"
GoodProbe ==
    [ran |-> TRUE, success |-> TRUE, utf8 |-> TRUE,
     stdout |-> VerusDriverName \o <<" ", "0", ".", "1", ".", "0", "\n">>]

Lexemes ==
    {VerusDriverName, <<"c", "a", "r", "g", "o">>, <<"0", ".", "1", ".", "0">>,
     <<"0", ".", "2", ".", "0">>, <<"0", ".", "1">>, <<"-", "a">>, <<"+", "b">>,
     <<" ">>, <<"\n">>}

Stdouts(n) == {Concat(ls) : ls \in SeqsUpTo(Lexemes, n)}

\* every answer of the probe: it could not be run, it exited with a failure,
\* it wrote bytes that are not UTF-8, or it wrote one of Stdouts
AllProbes(n) ==
    {[ran |-> TRUE, success |-> TRUE, utf8 |-> TRUE, stdout |-> o] : o \in Stdouts(n)}
        \cup {[ran |-> FALSE, success |-> FALSE, utf8 |-> FALSE, stdout |-> <<>>],
              [ran |-> TRUE, success |-> FALSE, utf8 |-> TRUE, stdout |-> GoodProbe.stdout],
              [ran |-> TRUE, success |-> FALSE, utf8 |-> TRUE, stdout |-> <<>>],
              [ran |-> TRUE, success |-> TRUE, utf8 |-> FALSE, stdout |-> <<>>]}

ProcProbes ==
    {GoodProbe,
     [GoodProbe EXCEPT !.stdout = VerusDriverName \o <<" ", "0", ".", "2", ".", "0", "\n">>],
     [GoodProbe EXCEPT !.stdout = VerusDriverName \o <<" ", "0", ".", "1", "\n">>],
     [GoodProbe EXCEPT !.stdout = <<"c", "a", "r", "g", "o", " ", "0", ".", "1", ".", "0">>],
     [GoodProbe EXCEPT !.stdout = <<>>],
     [GoodProbe EXCEPT !.utf8 = FALSE],
     [GoodProbe EXCEPT !.success = FALSE],
     [ran |-> FALSE, success |-> FALSE, utf8 |-> FALSE, stdout |-> <<>>]}

\* The packages of the workspace: PackageId repr, name, version, manifest path.
\* mid and leaf share name and version and differ by manifest path.
IdRoot == <<"r">>

IdMid == <<"m">>

IdLeaf == <<"l">>

PackageName(id) ==
    IF id = IdRoot THEN <<"a", "p", "p">> ELSE <<"l", "i", "b">>

PackageVersion(id) == <<"0", ".", "1", ".", "0">>

ManifestPath(id) ==
    <<"/", "w", "/">> \o id \o <<"/", "C", "a", "r", "g", "o", ".", "t", "o", "m", "l">>

Package(id, meta) ==
    [id |-> id, name |-> PackageName(id), version |-> PackageVersion(id),
     manifest_path |-> ManifestPath(id), metadata |-> meta]

Absent == [kind |-> "absent", on |-> {}]

Malformed == [kind |-> "malformed", on |-> {}]

Object(on) == [kind |-> "object", on |-> on]

NodeDep(name, pkg) == [name |-> name, pkg |-> pkg]

Node(id, deps) == [id |-> id, deps |-> deps]

Resolved(packages, nodes) ==
    [query_ok |-> TRUE, packages |-> packages, resolve |-> [some |-> TRUE, nodes |-> nodes]]

QueryFailed ==
    [query_ok |-> FALSE, packages |-> <<>>, resolve |-> [some |-> FALSE, nodes |-> <<>>]]

\* declared dependency names; in byte order "ab" < "b"
DepNames == {<<"b">>, <<"a", "b">>}

\* Every graph over two packages, well-formed or not, whose listing has at
\* most `size` items (packages, nodes and dependency edges together).
SmallIds == {IdRoot, IdMid}

SmallPackages == {Package(id, meta) : id \in SmallIds, meta \in {Absent, Object({"verify"}), Malformed}}

SmallDeps == {NodeDep(n, t) : n \in DepNames, t \in SmallIds}

RECURSIVE NodeListsWithin(_)
NodeListsWithin(size) ==
    IF size = 0 THEN {<<>>}
    ELSE {<<>>} \cup
         UNION {{<<Node(id, deps)>> \o rest : rest \in NodeListsWithin(size - 1 - Len(deps))} :
                    id \in SmallIds, deps \in SeqsUpTo(SmallDeps, size - 1)}

GraphsWithin(size) ==
    UNION {{Resolved(packages, nodes) :
                packages \in [1..p -> SmallPackages], nodes \in NodeListsWithin(size - p)} :
           p \in 0..size}

\* The workspace root -> {mid, leaf}, mid -> leaf: root with any metadata and
\* any listed dependencies, mid and leaf verified or not, mid also as vstd.
RootMetas == {Absent} \cup {Object(on) : on \in SUBSET Fields}

RootDeps == {NodeDep(n, t) : n \in DepNames, t \in {IdMid, IdLeaf}}

MidDeps == {<<>>, <<NodeDep(<<"b">>, IdLeaf)>>}

VerifyMetas == {Absent, Object({"verify"})}

MidMetas == VerifyMetas \cup {Object({"verify", "is-vstd"})}

Workspaces(max_deps) ==
    {Resolved(<<Package(IdRoot, rm), Package(IdMid, mm), Package(IdLeaf, lm)>>,
              <<Node(IdRoot, rd), Node(IdMid, md), Node(IdLeaf, <<>>)>>) :
        rm \in RootMetas, mm \in MidMetas, lm \in VerifyMetas,
        rd \in SeqsUpTo(RootDeps, max_deps), md \in MidDeps}

\* The same workspace in every listing order of its packages and its nodes.
Orders == {o \in [1..3 -> 1..3] : \A i, j \in 1..3 : i # j => o[i] # o[j]}

OrderRootMetas == {Absent, Object({"verify"}), Object({"verify", "is-core", "no-vstd", "is-builtin"})}

PermutedWorkspaces(max_deps) ==
    {LET packages == <<Package(IdRoot, rm), Package(IdMid, mm), Package(IdLeaf, lm)>>
         nodes == <<Node(IdRoot, rd), Node(IdMid, md), Node(IdLeaf, <<>>)>>
     IN  Resolved([i \in 1..3 |-> packages[po[i]]], [i \in 1..3 |-> nodes[no[i]]]) :
        rm \in OrderRootMetas, mm \in VerifyMetas, lm \in VerifyMetas,
        rd \in SeqsUpTo(RootDeps, max_deps), md \in MidDeps, po \in Orders, no \in Orders}

\* one well-formed graph: root (verified) depends on leaf (verified)
OneGraph ==
    {Resolved(<<Package(IdRoot, Object({"verify"})), Package(IdLeaf, Object({"verify"}))>>,
              <<Node(IdRoot, <<NodeDep(<<"b">>, IdLeaf)>>), Node(IdLeaf, <<>>)>>)}

\* the cargo child: not spawned, not waited for, killed by a signal, or exited
Children ==
    {[spawned |-> FALSE, waited |-> FALSE, has_code |-> FALSE, code |-> 0],
     [spawned |-> TRUE, waited |-> FALSE, has_code |-> FALSE, code |-> 0],
     [spawned |-> TRUE, waited |-> TRUE, has_code |-> FALSE, code |-> 0]}
        \cup {[spawned |-> TRUE, waited |-> TRUE, has_code |-> TRUE, code |-> c] :
                 c \in {0, 1, 101, 255, 256}}

CleanExit == {[spawned |-> TRUE, waited |-> TRUE, has_code |-> TRUE, code |-> 0]}

\* instructions that are fragments of the separator: its proper prefixes
\* (the empty instruction among them), its proper suffixes, and "x"
Fragments ==
    {SubSeq(SEP, 1, k) : k \in 0..(Len(SEP) - 1)}
        \cup {SubSeq(SEP, k, Len(SEP)) : k \in 2..Len(SEP)}
        \cup {<<"x">>}

PackArgLists(n) ==
    {pre \o <<ArgDashDash>> \o rest :
        pre \in {<<>>, <<ArgJustVerify>>}, rest \in SeqsUpTo(Fragments, n)}

ProcArgLists ==
    {<<>>, <<ArgCheck, ArgRelease>>, <<ArgJustVerify, ArgDashDash, <<"x">>>>, <<ArgRelease, ArgZ>>}

ProcChildren ==
    {[spawned |-> FALSE, waited |-> FALSE, has_code |-> FALSE, code |-> 0],
     [spawned |-> TRUE, waited |-> TRUE, has_code |-> FALSE, code |-> 0],
     [spawned |-> TRUE, waited |-> TRUE, has_code |-> TRUE, code |-> 0],
     [spawned |-> TRUE, waited |-> TRUE, has_code |-> TRUE, code |-> 101]}

-----------------------------------------------------------------------------
(* Initial states and specifications *)

\* process is entered with its arguments; nothing has been built or asked
InitOn(ArgLists, Probes, Answers, Exits) ==
    /\ args \in ArgLists
    /\ probe \in Probes
    /\ metadata \in Answers
    /\ child \in Exits
    /\ pc = "new"
    /\ cmd = NoCmd
    /\ argv = <<>>
    /\ env = EmptyEnv
    /\ index = NoIndex
    /\ args_for = EmptyEnv
    /\ log = <<>>
    /\ outcome = Running

\* the environment lines 151-163 build in the run of process with no
\* arguments once the gate passed
IndexedEnv ==
    CommonEnvOf(EnvSet(EmptyEnv, EnvRustcWrapper, unchecked_verus_driver_path),
                VerusCmd_new(<<>>).common_verus_driver_args)

\* into_std_cmd at line 166 in the run of process with no arguments, after
\* the gate passed on GoodProbe and the graph query answered one of Answers
InitIndexed(Answers) ==
    /\ args = <<>>
    /\ probe = GoodProbe
    /\ metadata \in Answers
    /\ child \in CleanExit
    /\ pc = "index"
    /\ cmd = VerusCmd_new(<<>>)
    /\ argv = <<CargoSubcommand_to_arg(VerusCmd_new(<<>>).cargo_subcommand)>>
    /\ env = IndexedEnv
    /\ index = NoIndex
    /\ args_for = EmptyEnv
    /\ log = <<"probe", "metadata">>
    /\ outcome = Running

\* a whole run with no arguments and GoodProbe that arrives at line 166 is in
\* the state InitIndexed starts from
IndexedIsOfTheRun ==
    (pc = "index" /\ args = <<>> /\ probe = GoodProbe) =>
        /\ cmd = VerusCmd_new(<<>>)
        /\ argv = <<CargoSubcommand_to_arg(VerusCmd_new(<<>>).cargo_subcommand)>>
        /\ env = IndexedEnv
        /\ index = NoIndex
        /\ args_for = EmptyEnv
        /\ log = <<"probe", "metadata">>
        /\ outcome = Running

\* whole runs: a few argument lists, every kind of probe answer, every small
\* graph or a failed query, every kind of child
Spec ==
    InitOn(ProcArgLists, ProcProbes, GraphsWithin(ProcGraphSize) \cup {QueryFailed}, ProcChildren)
        /\ [][Next]_vars

\* every argument list over ArgTokens
SpecArgs == InitOn(SeqsUpTo(ArgTokens, MaxArgs), {GoodProbe}, OneGraph, CleanExit) /\ [][Next]_vars

\* global instruction lists made of fragments of the separator
SpecPack == InitOn(PackArgLists(MaxInstr), {GoodProbe}, OneGraph, CleanExit) /\ [][Next]_vars

\* every probe answer
SpecGate == InitOn(NoArgs, AllProbes(MaxLexemes), OneGraph, CleanExit) /\ [][Next]_vars

\* every small graph, well-formed or not
SpecIndex == InitIndexed(GraphsWithin(MaxGraphSize)) /\ [][NextIndexed]_vars

\* the three-package workspace with every metadata and dependency listing
SpecEnv == InitIndexed(Workspaces(MaxDeps)) /\ [][NextIndexed]_vars

\* the three-package workspace in every listing order
SpecOrder == InitIndexed(PermutedWorkspaces(MaxDeps)) /\ [][NextIndexed]_vars

-----------------------------------------------------------------------------
(* The receiving side of the packed environment values.  The driver is not *)
(* part of main.rs; the convention is the one the specification gives:     *)
(* split the value at every occurrence of the separator and drop the       *)
(* leading empty piece.                                                    *)

Unpack(value) == Tail(StrSplit(value, SEP))

-----------------------------------------------------------------------------
(* Vocabulary of the properties: the run, and the resolved graph as the    *)
(* query listed it                                                          *)

InLog(x) == \E i \in 1..Len(log) : log[i] = x

\* into_std_cmd returned Ok(cmd)
Built == pc = "spawn" \/ InLog("spawn")

\* process ended in an error or a panic and no child was started
Aborted == pc = "done" /\ outcome.kind \in {"error", "panic"} /\ ~InLog("spawn")

Least(S) == CHOOSE x \in S : \A y \in S : x <= y

Occurs(a, seq) == \E i \in 1..Len(seq) : seq[i] = a

\* the position of the first `--`, or one past the end
FirstDashDash ==
    IF Occurs(ArgDashDash, args)
    THEN Least({i \in 1..Len(args) : args[i] = ArgDashDash})
    ELSE Len(args) + 1

BeforeDashDash == SubSeq(args, 1, FirstDashDash - 1)

AfterDashDash == SubSeq(args, FirstDashDash + 1, Len(args))

Packages == {metadata.packages[i] : i \in 1..Len(metadata.packages)}

Nodes == {metadata.resolve.nodes[i] : i \in 1..Len(metadata.resolve.nodes)}

PackageIds == {p.id : p \in Packages}

\* the dependency edges the graph lists for package p
EdgesOf(p) == UNION {{n.deps[j] : j \in 1..Len(n.deps)} : n \in {m \in Nodes : m.id = p.id}}

\* the tool metadata of p sets `field` to true
Declared(p, field) == p.metadata.kind = "object" /\ field \in p.metadata.on

Verified(p) == Declared(p, "verify")

TargetVerified(d) == \E q \in Packages : q.id = d.pkg /\ Verified(q)

CanonicalId(p) == mk_package_id(p.name, p.version, p.manifest_path)

ArgsForVar(p) == EnvArgsForPrefix \o CanonicalId(p)

VerifyVar(p) == EnvVerifyPrefix \o CanonicalId(p)

Import(name) == ImportDepPrefix \o name

\* the instructions the environment carries for package p
Instructions(p) ==
    IF ArgsForVar(p) \in DOMAIN env THEN Unpack(env[ArgsForVar(p)]) ELSE <<>>

\* the elements of a set of strings in ascending byte order
Ascending(S) ==
    CHOOSE seq \in [1..Cardinality(S) -> S] :
        \A i, j \in 1..Cardinality(S) : i < j => StrLess(seq[i], seq[j])

\* the instruction list a verified package is to get: its role instructions,
\* then one import per edge to a verified target, by ascending declared name
RoleInstructions(p) ==
    (IF Declared(p, "is-core") THEN <<IsCoreArg>> ELSE <<>>)
        \o (IF Declared(p, "is-vstd") THEN <<IsVstdArg>> ELSE <<>>)
        \o (IF Declared(p, "no-vstd") THEN <<NoVstdArg>> ELSE <<>>)

ImportNames(p) == {d.name : d \in {e \in EdgesOf(p) : TargetVerified(e)}}

ImportInstructions(p) ==
    [i \in 1..Cardinality(ImportNames(p)) |-> Import(Ascending(ImportNames(p))[i])]

DerivedList(p) == RoleInstructions(p) \o ImportInstructions(p)

\* the kinds of inconsistency of a resolved graph
DupPackageId ==
    \E i, j \in 1..Len(metadata.packages) :
        i < j /\ metadata.packages[i].id = metadata.packages[j].id

DupNodeId ==
    \E i, j \in 1..Len(metadata.resolve.nodes) :
        i < j /\ metadata.resolve.nodes[i].id = metadata.resolve.nodes[j].id

DupDepName ==
    \E n \in Nodes : \E i, j \in 1..Len(n.deps) : i < j /\ n.deps[i].name = n.deps[j].name

NodeWithoutPackage == \E n \in Nodes : n.id \notin PackageIds

PackageWithoutNode == \E p \in Packages : \A n \in Nodes : n.id # p.id

DanglingEdge == \E n \in Nodes : \E j \in 1..Len(n.deps) : n.deps[j].pkg \notin PackageIds

MalformedToolMetadata == \E p \in Packages : p.metadata.kind = "malformed"

-----------------------------------------------------------------------------
(* C1 *)

\* C1: the cargo child is spawned only after the version gate, the graph
\* query and the construction of the index, each once and in this order; and
\* a run whose gate fails, whose query fails, or whose graph has malformed
\* tool metadata or a consistency violation (a duplicate package id, a
\* dangling dependency edge, a duplicate dependency name, a node without
\* package, a package without node) ends in an error or a panic without
\* spawning the child.
C1_SpawnOnlyAfterAllSucceeded ==
    /\ log = SubSeq(<<"probe", "metadata", "index", "spawn">>, 1, Len(log))
    /\ (pc = "done"
          /\ (\/ ~checked_verus_driver_path(probe).ok
              \/ ~metadata.query_ok
              \/ MalformedToolMetadata
              \/ DupPackageId \/ DupNodeId \/ DupDepName
              \/ NodeWithoutPackage \/ PackageWithoutNode
              \/ DanglingEdge))
         => Aborted

\* the same without the dangling dependency edge among the violations
C1_ExceptDanglingEdges ==
    /\ log = SubSeq(<<"probe", "metadata", "index", "spawn">>, 1, Len(log))
    /\ (pc = "done"
          /\ (\/ ~checked_verus_driver_path(probe).ok
              \/ ~metadata.query_ok
              \/ MalformedToolMetadata
              \/ DupPackageId \/ DupNodeId \/ DupDepName
              \/ NodeWithoutPackage \/ PackageWithoutNode))
         => Aborted

-----------------------------------------------------------------------------
(* C2 *)

\* C2: when into_std_cmd succeeds, a package that is not verified has no
\* __VERUS_DRIVER_ARGS_FOR_<id> variable, whatever its role flags and its
\* dependencies, and the instructions of no package contain an import for
\* an edge whose target is that package.
C2_UnverifiedContributesNothing ==
    Built =>
        \A p \in Packages :
            ~Verified(p) =>
                /\ ArgsForVar(p) \notin DOMAIN env
                /\ p.id \notin DOMAIN args_for
                /\ \A q \in Packages : \A d \in EdgesOf(q) :
                       d.pkg = p.id => ~Occurs(Import(d.name), Instructions(q))

\* a verified package that has its variable and an edge to an unverified
\* package, and an unverified package with a role flag and an edge
C2_Witness ==
    /\ Built
    /\ \E q \in Packages : \E d \in EdgesOf(q) : \E p \in Packages :
           /\ Verified(q) /\ ArgsForVar(q) \in DOMAIN env
           /\ d.pkg = p.id /\ ~Verified(p)
    /\ \E p \in Packages :
           ~Verified(p) /\ Declared(p, "is-core") /\ EdgesOf(p) # {}

-----------------------------------------------------------------------------
(* C3 *)

\* C3 as stated: when into_std_cmd succeeds, every verified package has its
\* __VERUS_DRIVER_ARGS_FOR_<id> variable, carrying its packed list, a
\* package with no role flag and no verified dependency included.
C3_EveryVerifiedPackageHasVariable ==
    Built =>
        \A p \in Packages :
            Verified(p) =>
                /\ ArgsForVar(p) \in DOMAIN env
                /\ env[ArgsForVar(p)] = pack_verus_driver_args_for_env(DerivedList(p))

\* C3: when into_std_cmd succeeds, every verified package has its
\* __VERUS_DRIVER_VERIFY_<id> variable; it has the variable
\* __VERUS_DRIVER_ARGS_FOR_<id>, carrying its packed list, exactly when its
\* list is not empty; and no other __VERUS_DRIVER_ARGS_FOR_ variable exists.
C3_VariableExactlyWhenListNonEmpty ==
    Built =>
        /\ \A p \in Packages :
               Verified(p) =>
                   /\ VerifyVar(p) \in DOMAIN env
                   /\ IF DerivedList(p) # <<>>
                      THEN /\ ArgsForVar(p) \in DOMAIN env
                           /\ env[ArgsForVar(p)] =
                                  pack_verus_driver_args_for_env(DerivedList(p))
                      ELSE ArgsForVar(p) \notin DOMAIN env
        /\ \A k \in DOMAIN env :
               HasPrefix(k, EnvArgsForPrefix) =>
                   \E p \in Packages : Verified(p) /\ k = ArgsForVar(p)

\* a verified package with an empty list next to one with a non-empty list
C3_Witness ==
    /\ Built
    /\ \E p \in Packages : Verified(p) /\ DerivedList(p) = <<>>
    /\ \E p \in Packages : Verified(p) /\ DerivedList(p) # <<>>

-----------------------------------------------------------------------------
(* C4 *)

\* C4: when no instruction of the global list contains the separator,
\* unpacking the packed value of __VERUS_DRIVER_ARGS__ yields the list, in
\* order; and so does unpacking the packing of the instructions given after
\* `--` alone, the empty list included.
C4_PackRoundTrips ==
    (EnvDriverArgs \in DOMAIN env
        /\ \A i \in 1..Len(cmd.common_verus_driver_args) :
               ~StrContains(cmd.common_verus_driver_args[i], SEP))
      => /\ Unpack(env[EnvDriverArgs]) = cmd.common_verus_driver_args
         /\ Unpack(pack_verus_driver_args_for_env(AfterDashDash)) = AfterDashDash

-----------------------------------------------------------------------------
(* C5 *)

IsForwarded(a) == a \notin {ArgCheck, ArgJustVerify}

\* C5: --check before the first `--` selects check, otherwise build; the
\* cargo arguments are the arguments before the first `--` other than
\* --check and --just-verify, in order, and nothing of what follows; the
\* global list is compile-when-not-primary, then compile-when-primary
\* exactly when --just-verify does not occur before the first `--`, then the
\* arguments after the first `--` in order; the cargo command line and the
\* packed global variable are made of these.
C5_ArgumentRouting ==
    /\ pc # "new" =>
          /\ cmd.cargo_subcommand =
                 (IF Occurs(ArgCheck, BeforeDashDash) THEN "check" ELSE "build")
          /\ cmd.cargo_args = SelectSeq(BeforeDashDash, IsForwarded)
          /\ cmd.common_verus_driver_args =
                 <<CompileWhenNotPrimary>>
                     \o (IF Occurs(ArgJustVerify, BeforeDashDash)
                         THEN <<>> ELSE <<CompileWhenPrimary>>)
                     \o AfterDashDash
    /\ pc \notin {"new", "gate"} =>
          argv = <<IF Occurs(ArgCheck, BeforeDashDash)
                   THEN <<"c", "h", "e", "c", "k">> ELSE <<"b", "u", "i", "l", "d">>>>
                     \o SelectSeq(BeforeDashDash, IsForwarded)
    /\ (pc \notin {"new", "gate", "common_env"} /\ EnvRustcWrapper \in DOMAIN env)
          => EnvDriverArgs \in DOMAIN env
    /\ EnvDriverArgs \in DOMAIN env =>
          env[EnvDriverArgs] =
              pack_verus_driver_args_for_env(
                  <<CompileWhenNotPrimary>>
                      \o (IF Occurs(ArgJustVerify, BeforeDashDash)
                          THEN <<>> ELSE <<CompileWhenPrimary>>)
                      \o AfterDashDash)

\* --just-verify and a forwarded argument before the first `--`, --check
\* only after it
C5_Witness ==
    /\ pc = "done"
    /\ Occurs(ArgJustVerify, BeforeDashDash)
    /\ Occurs(ArgRelease, BeforeDashDash)
    /\ ~Occurs(ArgCheck, BeforeDashDash)
    /\ Occurs(ArgCheck, AfterDashDash)
    /\ cmd.cargo_subcommand = "build"

-----------------------------------------------------------------------------
(* C6 *)

\* the whitespace-separated tokens of the probe's output, by position
SkipWhitespace(s) ==
    IF \A i \in 1..Len(s) : IsWhitespace(s[i]) THEN <<>>
    ELSE SubSeq(s, Least({i \in 1..Len(s) : ~IsWhitespace(s[i])}), Len(s))

UpToWhitespace(s) ==
    IF \A i \in 1..Len(s) : ~IsWhitespace(s[i]) THEN s
    ELSE SubSeq(s, 1, Least({i \in 1..Len(s) : IsWhitespace(s[i])}) - 1)

FirstToken(s) == UpToWhitespace(SkipWhitespace(s))

AfterFirstToken(s) ==
    SubSeq(SkipWhitespace(s), Len(FirstToken(s)) + 1, Len(SkipWhitespace(s)))

SecondToken(s) == FirstToken(AfterFirstToken(s))

ThirdToken(s) == FirstToken(AfterFirstToken(AfterFirstToken(s)))

RequiredVersion == <<"0", ".", "1", ".", "0">>

\* a semantic version equal to 0.1.0: 0.1.0 itself, or 0.1.0 with build
\* metadata (dot-separated, non-empty identifiers of letters, digits, `-`)
IsRequiredVersion(token) ==
    \/ token = RequiredVersion
    \/ /\ HasPrefix(token, RequiredVersion \o <<"+">>)
       /\ LET build == SubSeq(token, Len(RequiredVersion) + 2, Len(token))
          IN  /\ build # <<>>
              /\ build[1] # "." /\ build[Len(build)] # "."
              /\ \A i \in 1..Len(build) :
                     /\ build[i] \in Digits \cup Letters \cup {"-", "."}
                     /\ (i < Len(build) /\ build[i] = ".") => build[i + 1] # "."

\* the output is one line `verus-driver <version>` and nothing else
IsOneLine(s) ==
    LET line == IF s # <<>> /\ s[Len(s)] = "\n" THEN SubSeq(s, 1, Len(s) - 1) ELSE s
    IN  /\ ~Occurs("\n", line)
        /\ FirstToken(line) = VerusDriverName
        /\ IsRequiredVersion(SecondToken(line))
        /\ ThirdToken(line) = <<>>

Probed == InLog("probe")

GatePassed ==
    EnvRustcWrapper \in DOMAIN env /\ env[EnvRustcWrapper] = unchecked_verus_driver_path

GateFailedWith(err) ==
    /\ pc = "done" /\ outcome = Failed(err) /\ log = <<"probe">>
    /\ EnvRustcWrapper \notin DOMAIN env

\* the failures of the gate
GateErrors ==
    /\ (probe.ran /\ probe.success /\ probe.utf8
            /\ FirstToken(probe.stdout) = VerusDriverName
            /\ SecondToken(probe.stdout) = <<"0", ".", "2", ".", "0">>)
         => GateFailedWith("version_mismatch")
    /\ (probe.ran /\ probe.success /\ probe.utf8
            /\ \/ FirstToken(probe.stdout) # VerusDriverName
               \/ SecondToken(probe.stdout) = <<>>
               \/ SecondToken(probe.stdout) = <<"0", ".", "1">>)
         => GateFailedWith("invalid_output")
    /\ (probe.ran /\ ~probe.success) => GateFailedWith("exit_failure")
    /\ ~probe.ran => GateFailedWith("output_failed")
    /\ ~GatePassed =>
          \E err \in {"output_failed", "exit_failure", "invalid_utf8",
                      "invalid_output", "version_mismatch"} : GateFailedWith(err)

\* C6 as stated: the gate passes exactly when the probe exits successfully
\* and its output is one line `verus-driver <version>` with a version equal
\* to 0.1.0; version 0.2.0 fails with a version mismatch; a wrong name, no
\* version token, an unparseable version or an empty output fail with a
\* parse error; a non-zero exit fails; a failure returns no path.
C6_PassesExactlyOnOneLine ==
    Probed =>
        /\ GatePassed <=>
               (probe.ran /\ probe.success /\ probe.utf8 /\ IsOneLine(probe.stdout))
        /\ GateErrors

\* C6: the gate passes exactly when the probe ran, exited successfully,
\* wrote valid UTF-8, and the first two whitespace-separated tokens of its
\* output are `verus-driver` and a version equal to 0.1.0 (build metadata
\* apart), whatever whitespace, line breaks or further tokens surround them;
\* the failures are as stated.
C6_PassesOnFirstTwoTokens ==
    Probed =>
        /\ GatePassed <=>
               (probe.ran /\ probe.success /\ probe.utf8
                    /\ FirstToken(probe.stdout) = VerusDriverName
                    /\ IsRequiredVersion(SecondToken(probe.stdout)))
        /\ GateErrors

\* the gate passed on an output whose two tokens are on two lines
C6_Witness ==
    /\ Probed
    /\ GatePassed
    /\ probe.stdout = VerusDriverName \o <<"\n">> \o RequiredVersion

-----------------------------------------------------------------------------
(* C7 *)

\* the positions 1..Len(seq) in an order in which `before` never fails
Sorted(seq, before(_, _)) ==
    LET order == CHOOSE f \in [1..Len(seq) -> 1..Len(seq)] :
                     /\ \A i, j \in 1..Len(seq) : i # j => f[i] # f[j]
                     /\ \A i, j \in 1..Len(seq) : i < j => ~before(seq[f[j]], seq[f[i]])
    IN  [i \in 1..Len(seq) |-> seq[order[i]]]

ByPackageId(a, b) == StrLess(a.id, b.id)

ByNameThenTarget(a, b) == StrLess(a.name, b.name) \/ (a.name = b.name /\ StrLess(a.pkg, b.pkg))

\* the graph with the same packages, nodes and edges in one fixed listing
\* order: packages and nodes by id, the edges of a node by name and target
Canonical(m) ==
    [query_ok |-> m.query_ok,
     packages |-> Sorted(m.packages, ByPackageId),
     resolve |-> [some |-> m.resolve.some,
                  nodes |-> Sorted([i \in 1..Len(m.resolve.nodes) |->
                                       [id |-> m.resolve.nodes[i].id,
                                        deps |-> Sorted(m.resolve.nodes[i].deps,
                                                        ByNameThenTarget)]],
                                   ByPackageId)]]

\* what into_std_cmd makes of graph m from line 166 on
EnvironmentOf(m) ==
    LET idx == MetadataIndex_new(m)
    IN  IF idx.status # "ok" THEN [ok |-> FALSE, env |-> EmptyEnv]
        ELSE IF PackageEnvOf(idx.entries, IndexedEnv).panic
             THEN [ok |-> FALSE, env |-> EmptyEnv]
             ELSE [ok |-> TRUE, env |-> PackageEnvOf(idx.entries, IndexedEnv).env]

\* C7: two graphs with the same packages, nodes and edges in different
\* listing orders have the same canonical listing, and into_std_cmd makes of
\* a graph what it makes of its canonical listing: it succeeds on both or on
\* neither, and with the same variables and values.
C7_EnvironmentIgnoresListingOrder ==
    /\ pc = "spawn" =>
          /\ EnvironmentOf(Canonical(metadata)).ok
          /\ env = EnvironmentOf(Canonical(metadata)).env
    /\ (pc = "done" /\ ~InLog("spawn")) => ~EnvironmentOf(Canonical(metadata)).ok

\* a verified package whose two verified dependencies are listed in
\* descending order of name, in a graph whose packages and nodes are not
\* listed in order of id
C7_Witness ==
    /\ pc = "spawn"
    /\ metadata.packages # Canonical(metadata).packages
    /\ [i \in 1..Len(metadata.resolve.nodes) |-> metadata.resolve.nodes[i].id]
           # [i \in 1..Len(metadata.resolve.nodes) |-> Canonical(metadata).resolve.nodes[i].id]
    /\ \E p \in Packages : \E n \in Nodes :
           /\ n.id = p.id /\ Verified(p) /\ Len(n.deps) = 2
           /\ StrLess(n.deps[2].name, n.deps[1].name)
           /\ TargetVerified(n.deps[1]) /\ TargetVerified(n.deps[2])

-----------------------------------------------------------------------------
(* C8 *)

\* C8: when MetadataIndex::new succeeds, every package has exactly one
\* entry and the target of every dependency edge of every entry has an
\* entry; a graph with a dangling edge never yields an index.
C8_IndexClosedUnderEdges ==
    (InLog("index") /\ index.status = "ok") =>
        /\ \A p \in Packages :
               Cardinality({i \in 1..Len(index.entries) : index.entries[i].key = p.id}) = 1
        /\ \A i \in 1..Len(index.entries) :
               \A j \in 1..Len(index.entries[i].value.deps) :
                   MetadataIndex_has(index.entries, index.entries[i].value.deps[j].value.pkg)
        /\ ~DanglingEdge

-----------------------------------------------------------------------------
(* C9 *)

\* C9: on a graph with a package id twice in the package list or in the
\* node list, a node with two dependencies of one name, a node without
\* package or a package without node, MetadataIndex::new yields no index and
\* the run ends in an error or a panic without spawning; and an index that
\* is built has one entry per listed package and, in each entry, one edge
\* per listed dependency, the listed ones.
C9_InconsistentGraphAborts ==
    InLog("index") =>
        /\ (DupPackageId \/ DupNodeId \/ DupDepName
                \/ NodeWithoutPackage \/ PackageWithoutNode)
             => (index.status # "ok" /\ index.entries = <<>> /\ Aborted)
        /\ index.status = "ok" =>
               /\ Len(index.entries) = Len(metadata.packages)
               /\ \A p \in Packages : MetadataIndex_has(index.entries, p.id)
               /\ \A i \in 1..Len(index.entries) :
                      LET e == index.entries[i].value
                      IN  /\ Len(e.deps) = Cardinality(EdgesOf(e.package))
                          /\ {e.deps[j].value : j \in 1..Len(e.deps)} = EdgesOf(e.package)
                          /\ \A n \in Nodes : n.id = e.package.id => Len(n.deps) = Len(e.deps)

\* MetadataIndex::new panicked on a node with two dependencies of one name
\* in a graph that is consistent otherwise
C9_Witness ==
    /\ InLog("index")
    /\ DupDepName
    /\ ~DupPackageId /\ ~DupNodeId /\ ~NodeWithoutPackage /\ ~PackageWithoutNode
    /\ ~DanglingEdge /\ ~MalformedToolMetadata
    /\ index.status = "panic"
    /\ Aborted

-----------------------------------------------------------------------------
(* C10 *)

\* C10: when into_std_cmd succeeds, the instruction list derived for every
\* verified package is its role instructions for is_core, is_vstd, no_vstd
\* in this order, then one import per direct edge to a verified target, by
\* ascending declared name whatever the listing order; nothing else
\* contributes; and the package's variable, when set, carries this list.
C10_DerivedListIsRolesThenImports ==
    Built =>
        \A p \in Packages :
            Verified(p) =>
                /\ p.id \in DOMAIN args_for
                /\ args_for[p.id] = DerivedList(p)
                /\ ArgsForVar(p) \in DOMAIN env => Instructions(p) = DerivedList(p)

\* a verified package with is_core, no_vstd and is_builtin, two verified
\* dependencies listed in descending order of name, one of which has a
\* dependency of its own
C10_Witness ==
    /\ Built
    /\ \E p \in Packages : \E n \in Nodes :
           /\ n.id = p.id /\ Verified(p)
           /\ Declared(p, "is-core") /\ Declared(p, "no-vstd") /\ Declared(p, "is-builtin")
           /\ Len(n.deps) = 2
           /\ StrLess(n.deps[2].name, n.deps[1].name)
           /\ TargetVerified(n.deps[1]) /\ TargetVerified(n.deps[2])
           /\ \E q \in Packages : q.id = n.deps[1].pkg /\ EdgesOf(q) # {}
           /\ Len(args_for[p.id]) = 4

=============================================================================
